---- MODULE Spec2Model ----
(***************************************************************************)
(* Model of githubservice.go (valentim/marvin): the paginated loaders, the *)
(* pull-request commit scan, the direct-commit classification, the         *)
(* organization-wide scans and the open pull request aggregation.          *)
(*                                                                         *)
(* The service keeps no state between calls.  Every operation is a         *)
(* function of what the remote provider answers, so an action of the model *)
(* is one call of an operation: it draws the provider's content and the    *)
(* fetches that fail from small sets, runs the operation as the code does  *)
(* and records the call, its arguments, what it returned and the fetches   *)
(* it issued.                                                              *)
(***************************************************************************)
EXTENDS Integers, Sequences, FiniteSets

VARIABLES call, args, ret, fetches

vars == <<call, args, ret, fetches>>

----------------------------------------------------------------------------
(* Bounds of the model. *)

\* pages a paginated resource may span
MaxPages == 2
\* items on one page
MaxPerPage == 2
\* pull requests the provider lists for one repository
MaxPRs == 3
\* pages the commits of one pull request span
MaxPRCommitPages == 2
\* days a call may look back
MaxDays == 1
\* commits on the branch of one repository
MaxCommits == 3
\* repositories of the organization
MaxRepos == 2

----------------------------------------------------------------------------
(* Time, in hours. *)

\* float64(days)*24, Hours()/24: the hours of a day
HoursPerDay == 24

\* time.Now(), late enough for every look-back to stay positive
Now == HoursPerDay * (MaxDays + 1)

\* time.Now().AddDate(0, 0, -days)
TimeLimitOf(days) == Now - days * HoursPerDay

----------------------------------------------------------------------------
(* Errors.  A Go error value is nil or the failure of one remote fetch,    *)
(* identified by the capability that failed and what was asked of it.      *)

Nil == [op |-> "nil", at |-> 0]

Err(op, at) == [op |-> op, at |-> at]

\* var all []T: a nil slice has no elements
NilSlice == <<>>

----------------------------------------------------------------------------
(* The provider.  A paginated resource is a sequence of pages; the first   *)
(* request (Page left at 0) is answered with page 1, and resp.NextPage is  *)
(* the number of the following page, 0 on the last one.                    *)

NextPage(pages, page) == IF page < Len(pages) THEN page + 1 ELSE 0

Range(seq) == {seq[i] : i \in DOMAIN seq}

\* all sequences over S of length lo..hi
SeqsBetween(S, lo, hi) == UNION {[1..n -> S] : n \in lo..hi}

\* all paginated resources over the items S
PageSeqs(S) == SeqsBetween(SeqsBetween(S, 0, MaxPerPage), 1, MaxPages)

\* a list cut in pages of perPage items (an empty list is one empty page)
RECURSIVE Chunk(_, _)
Chunk(list, perPage) ==
    IF Len(list) <= perPage THEN <<list>>
    ELSE <<SubSeq(list, 1, perPage)>> \o Chunk(SubSeq(list, perPage + 1, Len(list)), perPage)

----------------------------------------------------------------------------
(* The paginated loaders.  fail is the set of page numbers whose fetch     *)
(* fails; all is the accumulator, log the page numbers requested so far.   *)

RECURSIVE loadIssuesForAssigneeLoop(_, _, _, _, _)
loadIssuesForAssigneeLoop(pages, fail, page, all, log) ==
    IF page \in fail
    THEN [items |-> all, err |-> Err("searchIssuesAssignedTo", page), fetches |-> Append(log, page)]
    ELSE IF NextPage(pages, page) = 0
         THEN [items |-> all \o pages[page], err |-> Nil, fetches |-> Append(log, page)]
         ELSE loadIssuesForAssigneeLoop(pages, fail, NextPage(pages, page),
                                        all \o pages[page], Append(log, page))

loadIssuesForAssignee(pages, fail) ==
    loadIssuesForAssigneeLoop(pages, fail, 1, NilSlice, <<>>)

RECURSIVE loadIssuesForRepoLoop(_, _, _, _, _)
loadIssuesForRepoLoop(pages, fail, page, all, log) ==
    IF page \in fail
    THEN [items |-> all, err |-> Err("listIssuesForRepo", page), fetches |-> Append(log, page)]
    ELSE IF NextPage(pages, page) = 0
         THEN [items |-> all \o pages[page], err |-> Nil, fetches |-> Append(log, page)]
         ELSE loadIssuesForRepoLoop(pages, fail, NextPage(pages, page),
                                    all \o pages[page], Append(log, page))

loadIssuesForRepo(pages, fail) ==
    loadIssuesForRepoLoop(pages, fail, 1, NilSlice, <<>>)

RECURSIVE loadCommitsForRepoLoop(_, _, _, _, _)
loadCommitsForRepoLoop(pages, fail, page, all, log) ==
    IF page \in fail
    THEN [items |-> all, err |-> Err("listCommitsForRepo", page), fetches |-> Append(log, page)]
    ELSE IF NextPage(pages, page) = 0
         THEN [items |-> all \o pages[page], err |-> Nil, fetches |-> Append(log, page)]
         ELSE loadCommitsForRepoLoop(pages, fail, NextPage(pages, page),
                                     all \o pages[page], Append(log, page))

\* mutant: the loop is forgotten, only the first page is fetched
loadCommitsForRepo_FirstPageOnly(pages, fail) ==
    loadCommitsForRepoLoop(<<pages[1]>>, fail, 1, NilSlice, <<>>)

loadCommitsForRepo(pages, fail) ==
    loadCommitsForRepoLoop(pages, fail, 1, NilSlice, <<>>)

RECURSIVE loadReposForOrganizationLoop(_, _, _, _, _)
loadReposForOrganizationLoop(pages, fail, page, all, log) ==
    IF page \in fail
    THEN [items |-> all, err |-> Err("listReposForOrg", page), fetches |-> Append(log, page)]
    ELSE IF NextPage(pages, page) = 0
         THEN [items |-> all \o pages[page], err |-> Nil, fetches |-> Append(log, page)]
         ELSE loadReposForOrganizationLoop(pages, fail, NextPage(pages, page),
                                           all \o pages[page], Append(log, page))

loadReposForOrganization(pages, fail) ==
    loadReposForOrganizationLoop(pages, fail, 1, NilSlice, <<>>)

RECURSIVE loadPRsForRepoLoop(_, _, _, _, _)
loadPRsForRepoLoop(pages, fail, page, all, log) ==
    IF page \in fail
    THEN [items |-> all, err |-> Err("listOpenPullRequests", page), fetches |-> Append(log, page)]
    ELSE IF NextPage(pages, page) = 0
         THEN [items |-> all \o pages[page], err |-> Nil, fetches |-> Append(log, page)]
         ELSE loadPRsForRepoLoop(pages, fail, NextPage(pages, page),
                                 all \o pages[page], Append(log, page))

\* mutant: a failed page is requested a second time before giving up
loadPRsForRepo_Retry(pages, fail) ==
    LET r == loadPRsForRepoLoop(pages, fail, 1, NilSlice, <<>>)
    IN  IF r.err = Nil THEN r
        ELSE [r EXCEPT !.fetches = Append(@, r.err.at)]

loadPRsForRepo(pages, fail) ==
    loadPRsForRepoLoop(pages, fail, 1, NilSlice, <<>>)

----------------------------------------------------------------------------
(* The pull-request commit scan.  prw is what the provider holds for the   *)
(* repository: prPages, the pull requests in the order it lists them,      *)
(* paged; listFail, the list pages whose fetch fails; prCommits, for each  *)
(* pull request number its commits, paged; commitFail, the numbers of the  *)
(* pull requests whose commit fetch fails.  Times are hours.               *)

ListPRs(page) == [op |-> "listPullRequestsSortedByUpdateDesc", pr |-> 0, page |-> page]

ListPRCommits(number, page) == [op |-> "listCommitsForPullRequest", pr |-> number, page |-> page]

\* mutant: Before and After mixed up
isOlderThanTimeBox_Before(pullRequest, timeLimit) ==
    timeLimit < pullRequest.CreatedAt /\ timeLimit < pullRequest.UpdatedAt

\* mutant: the update time is not looked at
isOlderThanTimeBox_CreatedOnly(pullRequest, timeLimit) ==
    pullRequest.CreatedAt < timeLimit

\* timeLimit.After(CreatedAt) && timeLimit.After(UpdatedAt)
isOlderThanTimeBox(pullRequest, timeLimit) ==
    pullRequest.CreatedAt < timeLimit /\ pullRequest.UpdatedAt < timeLimit

\* mutant: a failed commit fetch ends the walk of the page
RECURSIVE scanPullRequests_BreakOnError(_, _, _, _, _)
scanPullRequests_BreakOnError(prw, timeLimit, pullRequests, i, acc) ==
    IF i > Len(pullRequests) THEN acc
    ELSE LET pullRequest == pullRequests[i]
             asked == Append(acc.log, ListPRCommits(pullRequest.Number, 1))
         IN  IF isOlderThanTimeBox(pullRequest, timeLimit)
             THEN [acc EXCEPT !.remainingPRsAreOlder = TRUE]
             ELSE IF pullRequest.Number \in prw.commitFail
                  THEN [acc EXCEPT !.e = Err("listCommitsForPullRequest", pullRequest.Number),
                                   !.log = asked]
                  ELSE scanPullRequests_BreakOnError(prw, timeLimit, pullRequests, i + 1,
                           [acc EXCEPT !.all = @ \o prw.prCommits[pullRequest.Number][1],
                                       !.log = asked])

\* for _, pullRequest := range pullRequests: one request for the commits of
\* each pull request, with a fresh prOpt, so always its first page; the page
\* number stored in prOpt.Page at the end of the body is never used.
RECURSIVE scanPullRequests(_, _, _, _, _)
scanPullRequests(prw, timeLimit, pullRequests, i, acc) ==
    IF i > Len(pullRequests) THEN acc
    ELSE LET pullRequest == pullRequests[i]
             asked == Append(acc.log, ListPRCommits(pullRequest.Number, 1))
         IN  IF isOlderThanTimeBox(pullRequest, timeLimit)
             THEN [acc EXCEPT !.remainingPRsAreOlder = TRUE]
             ELSE IF pullRequest.Number \in prw.commitFail
                  THEN scanPullRequests(prw, timeLimit, pullRequests, i + 1,
                           [acc EXCEPT !.e = Err("listCommitsForPullRequest", pullRequest.Number),
                                       !.log = asked])
                  ELSE scanPullRequests(prw, timeLimit, pullRequests, i + 1,
                           [acc EXCEPT !.all = @ \o prw.prCommits[pullRequest.Number][1],
                                       !.log = asked])

RECURSIVE loadCommitsFromAllRepoPRsLoop(_, _, _, _)
loadCommitsFromAllRepoPRsLoop(prw, timeLimit, page, acc) ==
    LET asked == Append(acc.log, ListPRs(page))
    IN  IF page \in prw.listFail
        THEN [acc EXCEPT !.e = Err("listPullRequestsSortedByUpdateDesc", page), !.log = asked]
        ELSE LET after == scanPullRequests(prw, timeLimit, prw.prPages[page], 1,
                                           [acc EXCEPT !.log = asked])
             IN  IF NextPage(prw.prPages, page) = 0 \/ after.remainingPRsAreOlder
                 THEN after
                 ELSE loadCommitsFromAllRepoPRsLoop(prw, timeLimit,
                                                    NextPage(prw.prPages, page), after)

loadCommitsFromAllRepoPRs(prw, timeLimit) ==
    LET done == loadCommitsFromAllRepoPRsLoop(prw, timeLimit, 1,
                    [all |-> NilSlice, e |-> Nil, log |-> <<>>,
                     remainingPRsAreOlder |-> FALSE])
    IN  [items |-> done.all, err |-> done.e, fetches |-> done.log]

----------------------------------------------------------------------------
(* The direct commits of one repository.  rw is what the provider holds    *)
(* for the repository: commitPages, the commits of its branch since the    *)
(* time limit, paged; commitFail, the pages of them whose fetch fails;     *)
(* prw, its pull requests.  A commit is its SHA and the number of its      *)
(* parents.                                                                *)

ListCommits(page) == [op |-> "listCommitsForRepo", pr |-> 0, page |-> page]

\* mutant: compares the parent counts instead of the SHAs
isCommitInList_Parents(commit, commitList) ==
    \E i \in DOMAIN commitList : commit.Parents = commitList[i].Parents

\* the loop returns true at the first commit of the list with the SHA
isCommitInList(commit, commitList) ==
    \E i \in DOMAIN commitList : commit.SHA = commitList[i].SHA

\* for _, commit := range commits: the commits kept, in order
RECURSIVE masterCommitsOf(_, _, _)
masterCommitsOf(commits, allPRCommits, i) ==
    IF i > Len(commits) THEN <<>>
    ELSE (IF commits[i].Parents <= 1 /\ ~isCommitInList(commits[i], allPRCommits)
          THEN <<commits[i]>> ELSE <<>>)
         \o masterCommitsOf(commits, allPRCommits, i + 1)

\* mutant: the error of the pull-request scan is returned beside the
\* direct commits instead of ending the call
masterCommitsForSingleRepo_KeepGoing(rw, days) ==
    LET timeLimit == TimeLimitOf(days)
        branch == loadCommitsForRepo(rw.commitPages, rw.commitFail)
        scan == loadCommitsFromAllRepoPRs(rw.prw, timeLimit)
    IN  [master  |-> masterCommitsOf(branch.items, scan.items, 1),
         total   |-> Len(branch.items),
         err     |-> scan.err,
         fetches |-> [k \in DOMAIN branch.fetches |-> ListCommits(branch.fetches[k])]
                     \o scan.fetches]

\* err is assigned by both loads, so the test after them sees the error of
\* the pull-request scan only; the lambda is always isCommitInList
masterCommitsForSingleRepo(rw, days) ==
    LET timeLimit == TimeLimitOf(days)
        branch == loadCommitsForRepo(rw.commitPages, rw.commitFail)
        scan == loadCommitsFromAllRepoPRs(rw.prw, timeLimit)
        err == scan.err
        log == [k \in DOMAIN branch.fetches |-> ListCommits(branch.fetches[k])]
               \o scan.fetches
    IN  IF err # Nil
        THEN [master |-> NilSlice, total |-> 0, err |-> err, fetches |-> log]
        ELSE [master  |-> masterCommitsOf(branch.items, scan.items, 1),
              total   |-> Len(branch.items),
              err     |-> err,
              fetches |-> log]

----------------------------------------------------------------------------
(* Strings and sorting.  A name is the sequence of its bytes.              *)

\* strings.ToLower on ASCII: A..Z become a..z
ToLower(str) == [i \in DOMAIN str |-> IF str[i] \in 65..90 THEN str[i] + 32 ELSE str[i]]

\* Go's < on strings: bytewise lexicographic order
StrLess(a, b) ==
    \E k \in 1..Len(b) :
        /\ \A j \in 1..(k - 1) : j <= Len(a) /\ a[j] = b[j]
        /\ k = Len(a) + 1 \/ (k <= Len(a) /\ a[k] < b[k])

\* sort.Sort(a) is not stable: it leaves the elements in some order in which
\* no element is Less than one in front of it.  less[i][j] is a.Less(i, j)
\* on the list as it is handed over.
SortOutcomes(list, less) ==
    LET n == Len(list)
        perms == {f \in [1..n -> 1..n] : \A i, j \in 1..n : f[i] = f[j] => i = j}
    IN  {[i \in 1..n |-> list[f[i]]] : f \in
            {g \in perms : \A i, j \in 1..n : i < j => ~less[g[j]][g[i]]}}

\* RepositoryNameSorter.Less
RepositoryNameSorter(a) ==
    [i \in DOMAIN a |-> [j \in DOMAIN a |->
        StrLess(ToLower(a[i].Name), ToLower(a[j].Name))]]

----------------------------------------------------------------------------
(* Issues and their labels.  The labels of an issue are nil or a list of   *)
(* label names; a name or a text is the sequence of its bytes.             *)

NilLabels == [isNil |-> TRUE, list |-> <<>>]

LabelList(list) == [isNil |-> FALSE, list |-> list]

\* strings.Contains(s, substr)
Contains(s, substr) ==
    \E i \in 0..(Len(s) - Len(substr)) : SubSeq(s, i + 1, i + Len(substr)) = substr

\* the texts the predicates look for
\* "sprint"
Lit_sprint == <<115, 112, 114, 105, 110, 116>>

\* "in"
Lit_in == <<105, 110>>

\* "progress"
Lit_progress == <<112, 114, 111, 103, 114, 101, 115, 115>>

\* "ready"
Lit_ready == <<114, 101, 97, 100, 121>>

\* "for"
Lit_for == <<102, 111, 114>>

\* "qa"
Lit_qa == <<113, 97>>

\* "review"
Lit_review == <<114, 101, 118, 105, 101, 119>>

\* "pass"
Lit_pass == <<112, 97, 115, 115>>

\* "done"
Lit_done == <<100, 111, 110, 101>>

\* "product"
Lit_product == <<112, 114, 111, 100, 117, 99, 116>>

\* "backlog"
Lit_backlog == <<98, 97, 99, 107, 108, 111, 103>>

\* mutant: the names are joined as they are, without strings.ToLower
RECURSIVE getLabelStringLoop_AsIs(_, _, _)
getLabelStringLoop_AsIs(labels, i, retval) ==
    IF i > Len(labels) THEN retval
    ELSE getLabelStringLoop_AsIs(labels, i + 1, retval \o labels[i] \o <<32>>)

\* for _, label := range labels: retval += strings.ToLower(*label.Name) + " "
RECURSIVE getLabelStringLoop(_, _, _)
getLabelStringLoop(labels, i, retval) ==
    IF i > Len(labels) THEN retval
    ELSE getLabelStringLoop(labels, i + 1, retval \o ToLower(labels[i]) \o <<32>>)

\* ranging over nil labels runs the body no time
getLabelString(labels) == getLabelStringLoop(labels.list, 1, <<>>)

any(issue) == TRUE

isProductBacklogItem(issue) ==
    LET label == getLabelString(issue.Labels)
    IN  Contains(label, Lit_product) /\ Contains(label, Lit_backlog)

isSprintItem(issue) ==
    LET label == getLabelString(issue.Labels)
    IN  Contains(label, Lit_sprint)

isInProgress(issue) ==
    LET label == getLabelString(issue.Labels)
    IN  Contains(label, Lit_in) /\ Contains(label, Lit_progress)

isReadyForQA(issue) ==
    LET label == getLabelString(issue.Labels)
    IN  Contains(label, Lit_ready) /\ Contains(label, Lit_for) /\ Contains(label, Lit_qa)

isReadyForReview(issue) ==
    LET label == getLabelString(issue.Labels)
    IN  Contains(label, Lit_ready) /\ Contains(label, Lit_for) /\ Contains(label, Lit_review)

isQAPass(issue) ==
    LET label == getLabelString(issue.Labels)
    IN  Contains(label, Lit_qa) /\ Contains(label, Lit_pass)

isDone(issue) ==
    LET label == getLabelString(issue.Labels)
    IN  Contains(label, Lit_done)

\* mutant: isDone is left out of the rules that take an issue out of the
\* backlog
isBacklogItem_WithoutDone(issue) ==
    IF isSprintItem(issue) \/ isInProgress(issue) \/ isReadyForQA(issue) \/ isQAPass(issue)
    THEN FALSE ELSE TRUE

isBacklogItem(issue) ==
    IF isSprintItem(issue) \/ isInProgress(issue) \/ isReadyForQA(issue)
       \/ isQAPass(issue) \/ isDone(issue)
    THEN FALSE ELSE TRUE

\* the predicates handed to makeIssueList, by name
Lambdas ==
    {"any", "isSprintItem", "isInProgress", "isReadyForQA", "isQAPass",
     "isBacklogItem", "isReadyForReview"}

\* lambda(issue)
Holds(lambda, issue) ==
    CASE lambda = "any" -> any(issue)
      [] lambda = "isSprintItem" -> isSprintItem(issue)
      [] lambda = "isInProgress" -> isInProgress(issue)
      [] lambda = "isReadyForQA" -> isReadyForQA(issue)
      [] lambda = "isQAPass" -> isQAPass(issue)
      [] lambda = "isBacklogItem" -> isBacklogItem(issue)
      [] lambda = "isReadyForReview" -> isReadyForReview(issue)

\* for _, issue := range issues: an issue is kept when its labels are not
\* nil and the lambda holds of it
RECURSIVE keepIssues(_, _, _)
keepIssues(issues, lambda, i) ==
    IF i > Len(issues) THEN NilSlice
    ELSE (IF ~issues[i].Labels.isNil /\ Holds(lambda, issues[i])
          THEN <<issues[i]>> ELSE <<>>)
         \o keepIssues(issues, lambda, i + 1)

\* mutant: what was fetched before a failing page is classified and returned
\* beside the error
makeIssueList_Partial(pages, fail, lambda) ==
    LET issues == loadIssuesForRepo(pages, fail)
    IN  [items |-> keepIssues(issues.items, lambda, 1), err |-> issues.err,
         fetches |-> issues.fetches]

makeIssueList(pages, fail, lambda) ==
    LET issues == loadIssuesForRepo(pages, fail)
    IN  IF issues.err # Nil
        THEN [items |-> NilSlice, err |-> issues.err, fetches |-> issues.fetches]
        ELSE [items |-> keepIssues(issues.items, lambda, 1), err |-> issues.err,
              fetches |-> issues.fetches]

\* the repository "*"
Star == <<42>>

\* iw is what the provider answers about the issues asked for: its pages
\* and the pages whose fetch fails
AssignedTo(iw, repo) ==
    IF repo = Star
    THEN loadIssuesForAssignee(iw.pages, iw.fail)
    ELSE makeIssueList(iw.pages, iw.fail, "any")

Sprint(iw) == makeIssueList(iw.pages, iw.fail, "isSprintItem")

InProgress(iw) == makeIssueList(iw.pages, iw.fail, "isInProgress")

ReadyForQA(iw) == makeIssueList(iw.pages, iw.fail, "isReadyForQA")

QAPass(iw) == makeIssueList(iw.pages, iw.fail, "isQAPass")

Backlog(iw) == makeIssueList(iw.pages, iw.fail, "isBacklogItem")

ReadyForReview(iw) == makeIssueList(iw.pages, iw.fail, "isReadyForReview")

----------------------------------------------------------------------------
(* The active repositories of the organization.  org is what the provider  *)
(* holds for it: repoPages, its repositories, paged; repoFail, the pages   *)
(* whose fetch fails; repos, the content of each repository by name.       *)
(* Several orders may come out of the sort, so the result is a set.        *)

\* mutant: a repository pushed exactly days days ago is left out
isActive_Strict(repo, days) == Now - repo.PushedAt < days * HoursPerDay

\* time.Since(repo.PushedAt.Time).Hours() <= float64(days)*24
isActive(repo, days) == Now - repo.PushedAt <= days * HoursPerDay

loadActiveReposForOrganization(org, days) ==
    LET all == loadReposForOrganization(org.repoPages, org.repoFail)
        activeRepos == SelectSeq(all.items, LAMBDA repo : isActive(repo, days))
    IN  {[items |-> sorted, err |-> all.err, fetches |-> all.fetches] :
            sorted \in SortOutcomes(activeRepos, RepositoryNameSorter(activeRepos))}

----------------------------------------------------------------------------
(* The direct commits of the organization or of one repository.  A map is  *)
(* nil or a function from repository names to commit lists.                *)

NilMap == [isNil |-> TRUE, at |-> <<>>]

MakeMap(f) == [isNil |-> FALSE, at |-> f]

\* repoToMasterCommits[repoName] = masterCommits
MapSet(f, key, value) ==
    [k \in DOMAIN f \cup {key} |-> IF k = key THEN value ELSE f[k]]

\* a fetch about one repository; the empty name is the organization listing
InRepo(repo, fetch) == [op |-> fetch.op, repo |-> repo, pr |-> fetch.pr, page |-> fetch.page]

InRepoAll(repo, log) == [k \in DOMAIN log |-> InRepo(repo, log[k])]

ListRepos(page) == [op |-> "listReposForOrg", repo |-> <<>>, pr |-> 0, page |-> page]

\* mutant: a failing repository ends the scan but what was gathered from the
\* repositories before it is returned
RECURSIVE scanRepositories_Partial(_, _, _, _, _)
scanRepositories_Partial(org, days, repositories, i, acc) ==
    IF i > Len(repositories)
    THEN [map |-> MakeMap(acc.map), total |-> acc.total, err |-> Nil, fetches |-> acc.log]
    ELSE LET repoName == repositories[i].Name
             r == masterCommitsForSingleRepo(org.repos[repoName], days)
             log == acc.log \o InRepoAll(repoName, r.fetches)
         IN  IF r.err # Nil
             THEN [map |-> MakeMap(acc.map), total |-> acc.total, err |-> r.err,
                   fetches |-> log]
             ELSE IF Len(r.master) > 0
                  THEN scanRepositories_Partial(org, days, repositories, i + 1,
                           [map |-> MapSet(acc.map, repoName, r.master),
                            total |-> acc.total + r.total, log |-> log])
                  ELSE scanRepositories_Partial(org, days, repositories, i + 1,
                           [acc EXCEPT !.log = log])

\* mutant: a repository without direct commits gets an empty entry
RECURSIVE scanRepositories_EmptyEntries(_, _, _, _, _)
scanRepositories_EmptyEntries(org, days, repositories, i, acc) ==
    IF i > Len(repositories)
    THEN [map |-> MakeMap(acc.map), total |-> acc.total, err |-> Nil, fetches |-> acc.log]
    ELSE LET repoName == repositories[i].Name
             r == masterCommitsForSingleRepo(org.repos[repoName], days)
             log == acc.log \o InRepoAll(repoName, r.fetches)
         IN  IF r.err # Nil
             THEN [map |-> NilMap, total |-> 0, err |-> r.err, fetches |-> log]
             ELSE scanRepositories_EmptyEntries(org, days, repositories, i + 1,
                      [map |-> MapSet(acc.map, repoName, r.master),
                       total |-> acc.total + r.total, log |-> log])

\* mutant: the branch commits of every repository scanned are counted
RECURSIVE scanRepositories_CountAll(_, _, _, _, _)
scanRepositories_CountAll(org, days, repositories, i, acc) ==
    IF i > Len(repositories)
    THEN [map |-> MakeMap(acc.map), total |-> acc.total, err |-> Nil, fetches |-> acc.log]
    ELSE LET repoName == repositories[i].Name
             r == masterCommitsForSingleRepo(org.repos[repoName], days)
             log == acc.log \o InRepoAll(repoName, r.fetches)
         IN  IF r.err # Nil
             THEN [map |-> NilMap, total |-> 0, err |-> r.err, fetches |-> log]
             ELSE IF Len(r.master) > 0
                  THEN scanRepositories_CountAll(org, days, repositories, i + 1,
                           [map |-> MapSet(acc.map, repoName, r.master),
                            total |-> acc.total + r.total, log |-> log])
                  ELSE scanRepositories_CountAll(org, days, repositories, i + 1,
                           [acc EXCEPT !.total = @ + r.total, !.log = log])

\* for _, repository := range repositories
RECURSIVE scanRepositories(_, _, _, _, _)
scanRepositories(org, days, repositories, i, acc) ==
    IF i > Len(repositories)
    THEN [map |-> MakeMap(acc.map), total |-> acc.total, err |-> Nil, fetches |-> acc.log]
    ELSE LET repoName == repositories[i].Name
             r == masterCommitsForSingleRepo(org.repos[repoName], days)
             log == acc.log \o InRepoAll(repoName, r.fetches)
         IN  IF r.err # Nil
             THEN [map |-> NilMap, total |-> 0, err |-> r.err, fetches |-> log]
             ELSE IF Len(r.master) > 0
                  THEN scanRepositories(org, days, repositories, i + 1,
                           [map |-> MapSet(acc.map, repoName, r.master),
                            total |-> acc.total + r.total, log |-> log])
                  ELSE scanRepositories(org, days, repositories, i + 1,
                           [acc EXCEPT !.log = log])

\* repo is the empty string for the whole organization
makeCommitsList(org, repo, days) ==
    IF repo = <<>>
    THEN {IF active.err # Nil
          THEN [map |-> NilMap, total |-> 0, err |-> active.err,
                fetches |-> [k \in DOMAIN active.fetches |-> ListRepos(active.fetches[k])]]
          ELSE scanRepositories(org, days, active.items, 1,
                   [map |-> <<>>, total |-> 0,
                    log |-> [k \in DOMAIN active.fetches |-> ListRepos(active.fetches[k])]]) :
             active \in loadActiveReposForOrganization(org, days)}
    ELSE LET r == masterCommitsForSingleRepo(org.repos[repo], days)
         IN  {IF r.err # Nil
              THEN [map |-> NilMap, total |-> 0, err |-> r.err,
                    fetches |-> InRepoAll(repo, r.fetches)]
              ELSE [map |-> MakeMap(MapSet(<<>>, repo, r.master)), total |-> r.total,
                    err |-> Nil, fetches |-> InRepoAll(repo, r.fetches)]}

CommitsToMaster(org, repo, days) == makeCommitsList(org, repo, days)

----------------------------------------------------------------------------
(* The open pull requests of the organization.  org.openPRs holds, for     *)
(* each repository name, the pages of its open pull requests and the pages *)
(* of them whose fetch fails.                                              *)

ListOpenPRs(page) == [op |-> "listOpenPullRequests", pr |-> 0, page |-> page]

\* PROpenDurationSorter.Less
PROpenDurationSorter(a) ==
    [i \in DOMAIN a |-> [j \in DOMAIN a |-> a[i].CreatedAt < a[j].CreatedAt]]

\* numberOfDays < float64(daysPROpen), numberOfDays the hours since the
\* creation divided by 24
isTooNew(pullRequest, daysPROpen) ==
    Now - pullRequest.CreatedAt < daysPROpen * HoursPerDay

\* for _, pullRequest := range pullRequests: the first pull request that is
\* too new ends the walk of the repository's list
RECURSIVE addOldEnough(_, _, _, _)
addOldEnough(pullRequests, i, daysPROpen, allOpenPRs) ==
    IF i > Len(pullRequests) THEN allOpenPRs
    ELSE IF isTooNew(pullRequests[i], daysPROpen)
         THEN allOpenPRs
         ELSE addOldEnough(pullRequests, i + 1, daysPROpen,
                           Append(allOpenPRs, pullRequests[i]))

\* mutant: a repository whose pull requests fail to load is passed over and
\* the scan goes on with the next one
RECURSIVE scanOpenPRs_Continue(_, _, _, _, _)
scanOpenPRs_Continue(org, daysPROpen, activeRepos, i, acc) ==
    IF i > Len(activeRepos) THEN acc
    ELSE LET name == activeRepos[i].Name
             r == loadPRsForRepo(org.openPRs[name].pages, org.openPRs[name].fail)
             log == acc.log \o [k \in DOMAIN r.fetches |->
                                   InRepo(name, ListOpenPRs(r.fetches[k]))]
         IN  IF r.err # Nil
             THEN scanOpenPRs_Continue(org, daysPROpen, activeRepos, i + 1,
                      [acc EXCEPT !.e = r.err, !.log = log])
             ELSE scanOpenPRs_Continue(org, daysPROpen, activeRepos, i + 1,
                      [acc EXCEPT !.allOpenPRs = addOldEnough(r.items, 1, daysPROpen, @),
                                  !.log = log])

\* for _, repo := range activeRepos
RECURSIVE scanOpenPRs(_, _, _, _, _)
scanOpenPRs(org, daysPROpen, activeRepos, i, acc) ==
    IF i > Len(activeRepos) THEN acc
    ELSE LET name == activeRepos[i].Name
             r == loadPRsForRepo(org.openPRs[name].pages, org.openPRs[name].fail)
             log == acc.log \o [k \in DOMAIN r.fetches |->
                                   InRepo(name, ListOpenPRs(r.fetches[k]))]
         IN  IF r.err # Nil
             THEN [acc EXCEPT !.e = r.err, !.log = log]
             ELSE scanOpenPRs(org, daysPROpen, activeRepos, i + 1,
                      [acc EXCEPT !.allOpenPRs = addOldEnough(r.items, 1, daysPROpen, @),
                                  !.log = log])

\* a failed repository listing is remembered and what it returned is scanned
loadOpenPRsForOrganization(org, daysPROpen, daysSinceLastProjectActivity) ==
    UNION {LET done == scanOpenPRs(org, daysPROpen, active.items, 1,
                           [allOpenPRs |-> NilSlice, e |-> active.err,
                            log |-> [k \in DOMAIN active.fetches |->
                                        ListRepos(active.fetches[k])]])
           IN  {[items |-> sorted, err |-> done.e, fetches |-> done.log] :
                   sorted \in SortOutcomes(done.allOpenPRs, PROpenDurationSorter(done.allOpenPRs))} :
              active \in loadActiveReposForOrganization(org, daysSinceLastProjectActivity)}

OpenPullRequests(org, daysPROpen, daysSinceLastProjectActivity) ==
    loadOpenPRsForOrganization(org, daysPROpen, daysSinceLastProjectActivity)

----------------------------------------------------------------------------
(* Sample items of the paginated resources. *)

\* two items that differ
ItemSample == {1, 2}

Commit(sha, parents) == [SHA |-> sha, Parents |-> parents]

\* the creation and update times of a pull request around the time limit:
\* both before it, created before it and updated at it, both at it, created
\* before it and updated after it, both after it
PRTimes(timeLimit) ==
    {[CreatedAt |-> timeLimit - 1, UpdatedAt |-> timeLimit - 1],
     [CreatedAt |-> timeLimit - 1, UpdatedAt |-> timeLimit],
     [CreatedAt |-> timeLimit, UpdatedAt |-> timeLimit],
     [CreatedAt |-> timeLimit - 1, UpdatedAt |-> timeLimit + 1],
     [CreatedAt |-> timeLimit + 1, UpdatedAt |-> timeLimit + 1]}

\* the provider's pull requests of one repository: pull request number i is
\* the i-th listed, its commits are one per page, SHA i on the first page
PRWorld(times, failing, commitPages, perPage, listFail) ==
    [prPages    |-> Chunk([i \in DOMAIN times |->
                              [Number |-> i, CreatedAt |-> times[i].CreatedAt,
                               UpdatedAt |-> times[i].UpdatedAt]], perPage),
     listFail   |-> listFail,
     prCommits  |-> [i \in DOMAIN times |->
                        [p \in 1..commitPages |-> <<Commit(i + (p - 1) * MaxPRs, 1)>>]],
     commitFail |-> failing]

\* no page fails, or one does
OneFailure(pages) == {{}} \cup {{k} : k \in 1..Len(pages)}

\* no page fails, one does, or all do
SomeFailures(pages) == OneFailure(pages) \cup {1..Len(pages)}

\* branch commits: with the SHA on the first commit page of pull request 1,
\* an ordinary commit and a merge; with the SHA on its second page, a root
\* commit and an ordinary one
BranchCommits ==
    {Commit(1, 1), Commit(1, 2), Commit(1 + MaxPRs, 0), Commit(1 + MaxPRs, 1)}

\* the provider's content for one repository, its branch commits one a page
RepoWorld(commits, commitFail, prw) ==
    [commitPages |-> Chunk(commits, 1), commitFail |-> commitFail, prw |-> prw]

\* pull requests that all qualify: created and updated at the time limit
Recent(n, timeLimit) == [i \in 1..n |-> [CreatedAt |-> timeLimit, UpdatedAt |-> timeLimit]]

----------------------------------------------------------------------------
(* The calls. *)

Init ==
    /\ call = "none"
    /\ args = [pages |-> <<>>, fail |-> {}]
    /\ ret = [items |-> NilSlice, err |-> Nil]
    /\ fetches = <<>>

\* A call starts from the idle service: calls share no state, so a behaviour
\* of the model is one call.
Idle == call = "none"

\* the call returns r, having issued the fetches of log
Returned(name, a, r, log) ==
    /\ call' = name
    /\ args' = a
    /\ ret' = r
    /\ fetches' = log

\* what a paginated loader returns
Loaded(r) == [items |-> r.items, err |-> r.err]

LoadIssuesForAssignee ==
    /\ Idle
    /\ \E pages \in PageSeqs(ItemSample) : \E fail \in SomeFailures(pages) :
        Returned("loadIssuesForAssignee", [pages |-> pages, fail |-> fail],
                 Loaded(loadIssuesForAssignee(pages, fail)), loadIssuesForAssignee(pages, fail).fetches)

LoadIssuesForRepo ==
    /\ Idle
    /\ \E pages \in PageSeqs(ItemSample) : \E fail \in SomeFailures(pages) :
        Returned("loadIssuesForRepo", [pages |-> pages, fail |-> fail],
                 Loaded(loadIssuesForRepo(pages, fail)), loadIssuesForRepo(pages, fail).fetches)

LoadCommitsForRepo ==
    /\ Idle
    /\ \E pages \in PageSeqs(ItemSample) : \E fail \in SomeFailures(pages) :
        Returned("loadCommitsForRepo", [pages |-> pages, fail |-> fail],
                 Loaded(loadCommitsForRepo(pages, fail)), loadCommitsForRepo(pages, fail).fetches)

LoadReposForOrganization ==
    /\ Idle
    /\ \E pages \in PageSeqs(ItemSample) : \E fail \in SomeFailures(pages) :
        Returned("loadReposForOrganization", [pages |-> pages, fail |-> fail],
                 Loaded(loadReposForOrganization(pages, fail)), loadReposForOrganization(pages, fail).fetches)

LoadPRsForRepo ==
    /\ Idle
    /\ \E pages \in PageSeqs(ItemSample) : \E fail \in SomeFailures(pages) :
        Returned("loadPRsForRepo", [pages |-> pages, fail |-> fail],
                 Loaded(loadPRsForRepo(pages, fail)), loadPRsForRepo(pages, fail).fetches)

LoadCommitsFromAllRepoPRs ==
    /\ Idle
    /\ \E days \in {MaxDays}, n \in 0..MaxPRs, commitPages \in {1, MaxPRCommitPages},
          perPage \in 1..MaxPerPage :
         \E times \in [1..n -> PRTimes(TimeLimitOf(days))], failing \in SomeFailures([i \in 1..n |-> i]) :
           \E listFail \in OneFailure(Chunk(times, perPage)) :
              LET prw == PRWorld(times, failing, commitPages, perPage, listFail)
              IN  Returned("loadCommitsFromAllRepoPRs",
                           [prw |-> prw, timeLimit |-> TimeLimitOf(days)],
                           Loaded(loadCommitsFromAllRepoPRs(prw, TimeLimitOf(days))),
                           loadCommitsFromAllRepoPRs(prw, TimeLimitOf(days)).fetches)

\* repository names "a", "B" and "b": the order of the lowercased names is
\* not the order of the bytes, and two names are equal once lowercased
RepoNames == {<<97>>, <<66>>, <<98>>}

\* lists of n repositories with different names
NamesOf(n) == {names \in [1..n -> RepoNames] : \A i, j \in 1..n : names[i] = names[j] => i = j}

\* the last push of a repository: days ago to the hour, or an hour earlier
PushTimes(days) == {Now - days * HoursPerDay, Now - days * HoursPerDay - 1}

\* contents of a repository of a scanned organization: one direct commit;
\* one commit that is in a pull request; a pull request whose commit fetch
\* fails; a branch whose fetch fails; a merge commit and a direct commit
OrgRepoWorlds(days) ==
    {RepoWorld(w[1], w[2], PRWorld(Recent(w[3], TimeLimitOf(days)), w[4],
                                   MaxPRCommitPages, MaxPerPage, {})) :
        w \in {<<(<<Commit(1, 1)>>), {}, 0, {}>>,
               <<(<<Commit(1, 1)>>), {}, 1, {}>>,
               <<(<<Commit(1, 1)>>), {}, 1, {1}>>,
               <<(<<Commit(1, 1)>>), {1}, 0, {}>>,
               <<(<<Commit(1, 2), Commit(1 + MaxPRs, 1)>>), {}, 1, {}>>}}

\* the organization the provider holds: its repositories listed one a page
OrgWorld(names, pushed, worlds, repoFail) ==
    [repoPages |-> Chunk([i \in DOMAIN names |->
                             [Name |-> names[i], PushedAt |-> pushed[i]]], 1),
     repoFail  |-> repoFail,
     repos     |-> [name \in Range(names) |->
                       worlds[CHOOSE i \in DOMAIN names : names[i] = name]]]

\* the open pull requests of a repository, by creation time around the
\* minimum age (0: that age to the hour, -1: an hour older, 1: an hour too
\* new) and with the pages that fail: none; one old enough; a new one in
\* front of an old one; two old ones; the same with a failing second page;
\* an old one in front of a new one
OpenPRWorlds ==
    {<<(<<>>), {}>>, <<(<<0>>), {}>>, <<(<<1, -1>>), {}>>, <<(<<0, -1>>), {}>>,
     <<(<<0, -1>>), {2}>>, <<(<<-1, 1>>), {}>>}

\* the organization the provider holds, with the open pull requests of
\* each repository one a page
OrgOpenWorld(names, pushed, worlds, repoFail, daysPROpen) ==
    [repoPages |-> Chunk([i \in DOMAIN names |->
                             [Name |-> names[i], PushedAt |-> pushed[i]]], 1),
     repoFail  |-> repoFail,
     openPRs   |-> [name \in Range(names) |->
                       LET w == worlds[CHOOSE i \in DOMAIN names : names[i] = name]
                       IN  [pages |-> Chunk([k \in DOMAIN w[1] |->
                                                [Number |-> k, Repo |-> name,
                                                 CreatedAt |-> Now - daysPROpen * HoursPerDay
                                                               + w[1][k]]], 1),
                            fail  |-> w[2]]]]

OpenPullRequestsCall ==
    /\ Idle
    /\ \E daysPROpen \in {MaxDays}, daysSince \in {MaxDays}, n \in 0..MaxRepos :
         \E names \in NamesOf(n), pushed \in [1..n -> PushTimes(daysSince)],
            worlds \in [1..n -> OpenPRWorlds] :
           \E repoFail \in OneFailure(Chunk(names, 1)) :
              LET org == OrgOpenWorld(names, pushed, worlds, repoFail, daysPROpen)
              IN  \E r \in OpenPullRequests(org, daysPROpen, daysSince) :
                     Returned("OpenPullRequests",
                              [org |-> org, daysPROpen |-> daysPROpen,
                               daysSinceLastProjectActivity |-> daysSince],
                              Loaded(r), r.fetches)

CommitsToMasterCall ==
    /\ Idle
    /\ \E days \in 1..MaxDays, n \in 0..MaxRepos :
         \E names \in NamesOf(n), pushed \in [1..n -> PushTimes(days)],
            worlds \in [1..n -> OrgRepoWorlds(days)] :
           \E repoFail \in OneFailure(Chunk(names, 1)),
              repo \in {<<>>} \cup (IF n = 1 THEN {names[1]} ELSE {}) :
              LET org == OrgWorld(names, pushed, worlds, repoFail)
              IN  \E r \in CommitsToMaster(org, repo, days) :
                     Returned("CommitsToMaster",
                              [org |-> org, repo |-> repo, days |-> days],
                              [map |-> r.map, total |-> r.total, err |-> r.err],
                              r.fetches)

MasterCommitsForSingleRepo ==
    /\ Idle
    /\ \E days \in {MaxDays}, n \in 0..(MaxPRs - 1) :
         \E commits \in SeqsBetween(BranchCommits, 0, MaxCommits), failing \in SUBSET (1..n) :
           \E commitFail \in OneFailure(Chunk(commits, 1)),
              listFail \in OneFailure(Chunk(Recent(n, TimeLimitOf(days)), MaxPerPage)) :
              LET rw == RepoWorld(commits, commitFail,
                                  PRWorld(Recent(n, TimeLimitOf(days)), failing,
                                          MaxPRCommitPages, MaxPerPage, listFail))
                  r == masterCommitsForSingleRepo(rw, days)
              IN  Returned("masterCommitsForSingleRepo", [rw |-> rw, days |-> days],
                           [master |-> r.master, total |-> r.total, err |-> r.err],
                           r.fetches)

\* the last push of a listed repository: an hour inside the window, days
\* ago to the hour, an hour outside
PushTimesAround(days) ==
    {Now - days * HoursPerDay + 1, Now - days * HoursPerDay, Now - days * HoursPerDay - 1}

\* the repositories of an organization as the provider lists them
OrgListing(names, pushed, perPage, repoFail) ==
    [repoPages |-> Chunk([i \in DOMAIN names |->
                             [Name |-> names[i], PushedAt |-> pushed[i]]], perPage),
     repoFail  |-> repoFail]

LoadActiveReposForOrganization ==
    /\ Idle
    /\ \E days \in 1..MaxDays, n \in 0..MaxRepos, perPage \in {1, MaxPerPage} :
         \E names \in NamesOf(n), pushed \in [1..n -> PushTimesAround(days)] :
           \E repoFail \in OneFailure(Chunk(names, perPage)) :
              LET org == OrgListing(names, pushed, perPage, repoFail)
              IN  \E r \in loadActiveReposForOrganization(org, days) :
                     Returned("loadActiveReposForOrganization",
                              [org |-> org, days |-> days], Loaded(r), r.fetches)

\* bounds of the issue samples: the issues of a repository and the labels
\* of an issue
MaxIssues == 2

MaxLabels == 2

\* label names as projects write them
\* "Sprint"
Label_Sprint == <<83, 112, 114, 105, 110, 116>>

\* "Urgent"
Label_Urgent == <<85, 114, 103, 101, 110, 116>>

\* "In Progress"
Label_InProgress == <<73, 110, 32, 80, 114, 111, 103, 114, 101, 115, 115>>

\* "Ready for QA"
Label_ReadyForQA == <<82, 101, 97, 100, 121, 32, 102, 111, 114, 32, 81, 65>>

\* "QA Pass"
Label_QAPass == <<81, 65, 32, 80, 97, 115, 115>>

\* "Done"
Label_Done == <<68, 111, 110, 101>>

\* "Ready for Review"
Label_ReadyForReview == <<82, 101, 97, 100, 121, 32, 102, 111, 114, 32, 82, 101, 118, 105, 101, 119>>

\* "Product Backlog"
Label_ProductBacklog == <<80, 114, 111, 100, 117, 99, 116, 32, 66, 97, 99, 107, 108, 111, 103>>

\* "bug"
Label_Bug == <<98, 117, 103>>

\* "pinprogress"
Label_PinProgress == <<112, 105, 110, 112, 114, 111, 103, 114, 101, 115, 115>>

LabelNames ==
    {Label_Sprint, Label_Urgent, Label_InProgress, Label_ReadyForQA, Label_QAPass,
     Label_Done, Label_ReadyForReview, Label_ProductBacklog, Label_Bug, Label_PinProgress}

Issue(labels) == [Labels |-> labels]

\* the labels that make a lambda hold
LabelsFor(lambda) ==
    CASE lambda = "isSprintItem" -> <<Label_Sprint, Label_Urgent>>
      [] lambda = "isInProgress" -> <<Label_InProgress>>
      [] lambda = "isReadyForQA" -> <<Label_ReadyForQA>>
      [] lambda = "isQAPass" -> <<Label_QAPass>>
      [] lambda = "isReadyForReview" -> <<Label_ReadyForReview>>
      [] lambda = "isBacklogItem" -> <<Label_ProductBacklog>>
      [] lambda = "any" -> <<Label_Done>>

\* the issues of a repository asked with a lambda: without labels (nil, or
\* an empty list), with labels the lambda holds of, with the label "Done"
IssueSample(lambda) ==
    {Issue(NilLabels), Issue(LabelList(<<>>)), Issue(LabelList(LabelsFor(lambda))),
     Issue(LabelList(<<Label_Done>>))}

\* what the provider answers about the issues asked for
IssueWorlds(lambda) ==
    UNION {{[pages |-> Chunk(list, perPage), fail |-> fail] :
               fail \in OneFailure(Chunk(list, perPage))} :
              list \in SeqsBetween(IssueSample(lambda), 0, MaxIssues),
              perPage \in {1, MaxPerPage}}

SprintCall ==
    /\ Idle
    /\ \E iw \in IssueWorlds("isSprintItem") :
         Returned("Sprint", iw, Loaded(Sprint(iw)), Sprint(iw).fetches)

InProgressCall ==
    /\ Idle
    /\ \E iw \in IssueWorlds("isInProgress") :
         Returned("InProgress", iw, Loaded(InProgress(iw)), InProgress(iw).fetches)

ReadyForQACall ==
    /\ Idle
    /\ \E iw \in IssueWorlds("isReadyForQA") :
         Returned("ReadyForQA", iw, Loaded(ReadyForQA(iw)), ReadyForQA(iw).fetches)

QAPassCall ==
    /\ Idle
    /\ \E iw \in IssueWorlds("isQAPass") :
         Returned("QAPass", iw, Loaded(QAPass(iw)), QAPass(iw).fetches)

BacklogCall ==
    /\ Idle
    /\ \E iw \in IssueWorlds("isBacklogItem") :
         Returned("Backlog", iw, Loaded(Backlog(iw)), Backlog(iw).fetches)

ReadyForReviewCall ==
    /\ Idle
    /\ \E iw \in IssueWorlds("isReadyForReview") :
         Returned("ReadyForReview", iw, Loaded(ReadyForReview(iw)), ReadyForReview(iw).fetches)

\* repository "*" or the repository "a"
AssignedToCall ==
    /\ Idle
    /\ \E iw \in IssueWorlds("any"), repo \in {Star, <<97>>} :
         Returned("AssignedTo", [pages |-> iw.pages, fail |-> iw.fail, repo |-> repo],
                  Loaded(AssignedTo(iw, repo)), AssignedTo(iw, repo).fetches)

\* the predicates applied to one issue
ApplyPredicates ==
    /\ Idle
    /\ \E labels \in {NilLabels} \cup
                      {LabelList(list) : list \in SeqsBetween(LabelNames, 0, MaxLabels)} :
         Returned("predicates", [issue |-> Issue(labels)],
                  [isSprintItem         |-> isSprintItem(Issue(labels)),
                   isInProgress         |-> isInProgress(Issue(labels)),
                   isReadyForQA         |-> isReadyForQA(Issue(labels)),
                   isQAPass             |-> isQAPass(Issue(labels)),
                   isDone               |-> isDone(Issue(labels)),
                   isBacklogItem        |-> isBacklogItem(Issue(labels)),
                   isReadyForReview     |-> isReadyForReview(Issue(labels)),
                   isProductBacklogItem |-> isProductBacklogItem(Issue(labels))],
                  <<>>)

Next ==
    \/ SprintCall
    \/ InProgressCall
    \/ ReadyForQACall
    \/ QAPassCall
    \/ BacklogCall
    \/ ReadyForReviewCall
    \/ AssignedToCall
    \/ ApplyPredicates
    \/ LoadActiveReposForOrganization
    \/ OpenPullRequestsCall
    \/ CommitsToMasterCall
    \/ MasterCommitsForSingleRepo
    \/ LoadCommitsFromAllRepoPRs
    \/ LoadIssuesForAssignee
    \/ LoadIssuesForRepo
    \/ LoadCommitsForRepo
    \/ LoadReposForOrganization
    \/ LoadPRsForRepo

Spec == Init /\ [][Next]_vars

----------------------------------------------------------------------------
(* Properties of the paginated loaders. *)

PaginatedLoaders ==
    {"loadIssuesForAssignee", "loadIssuesForRepo", "loadCommitsForRepo",
     "loadReposForOrganization", "loadPRsForRepo"}

\* the provider capability each loader pages through
CapabilityOf(loader) ==
    CASE loader = "loadIssuesForAssignee" -> "searchIssuesAssignedTo"
      [] loader = "loadIssuesForRepo" -> "listIssuesForRepo"
      [] loader = "loadCommitsForRepo" -> "listCommitsForRepo"
      [] loader = "loadReposForOrganization" -> "listReposForOrg"
      [] loader = "loadPRsForRepo" -> "listOpenPullRequests"

\* the items of all pages, page 1 first
RECURSIVE Concat(_)
Concat(pages) ==
    IF pages = <<>> THEN <<>> ELSE Head(pages) \o Concat(Tail(pages))

\* the page numbers 1..n in order
UpTo(n) == [i \in 1..n |-> i]

Min(S) == CHOOSE x \in S : \A y \in S : x <= y

\* C1: when every page fetches successfully, a paginated loader returns the
\* ordered concatenation of the items of all pages with a nil error, having
\* requested pages 1..n once each, in order, and nothing after the page that
\* reports no next page.
C1_AllPagesConcatenated ==
    (call \in PaginatedLoaders /\ args.fail = {}) =>
        /\ ret.items = Concat(args.pages)
        /\ ret.err = Nil
        /\ fetches = UpTo(Len(args.pages))

C1_Witness ==
    /\ call = "loadCommitsForRepo"
    /\ args.fail = {}
    /\ Len(args.pages) = 2
    /\ ret.items = <<1, 2, 2, 1>>

\* C2: when the fetch of page k fails, a paginated loader returns the items
\* of pages 1..k-1 together with the error of that fetch, and the requests
\* it issued are pages 1..k once each: page k is not retried and no later
\* page is requested.
C2_FailureAtPageK ==
    (call \in PaginatedLoaders /\ args.fail # {}) =>
        LET k == Min(args.fail)
        IN  /\ ret.items = Concat(SubSeq(args.pages, 1, k - 1))
            /\ ret.err = Err(CapabilityOf(call), k)
            /\ fetches = UpTo(k)

C2_Witness ==
    /\ call = "loadPRsForRepo"
    /\ args.fail = {1}
    /\ Len(args.pages) = 2
    /\ args.pages[1] # <<>>
    /\ ret.items = <<>>
    /\ ret.err # Nil

----------------------------------------------------------------------------
(* Properties of the pull-request commit scan. *)

\* the pull requests of the repository in listing order
AllPRs(prw) == Concat(prw.prPages)

\* the list page that holds the i-th listed pull request
PageOfPR(prw, i) ==
    Min({p \in DOMAIN prw.prPages : Len(Concat(SubSeq(prw.prPages, 1, p))) >= i})

\* the list pages in front of the first one that fails
PagesBeforeFailure(prw) ==
    IF prw.listFail = {} THEN Len(prw.prPages) ELSE Min(prw.listFail) - 1

\* the listed pull requests created and updated before the time limit
OldPRs(prw, timeLimit) ==
    {i \in DOMAIN AllPRs(prw) :
        AllPRs(prw)[i].CreatedAt < timeLimit /\ AllPRs(prw)[i].UpdatedAt < timeLimit}

\* an old pull request is on a page the walk gets
OldPREncountered(prw, timeLimit) ==
    /\ OldPRs(prw, timeLimit) # {}
    /\ PageOfPR(prw, Min(OldPRs(prw, timeLimit))) <= PagesBeforeFailure(prw)

\* the pull requests the walk comes to before it stops: on a page in front of
\* a failing list page and listed before the first old pull request
WalkedPRs(prw, timeLimit) ==
    {i \in DOMAIN AllPRs(prw) :
        /\ PageOfPR(prw, i) <= PagesBeforeFailure(prw)
        /\ \A j \in OldPRs(prw, timeLimit) : i < j}

\* the first commit pages of the walked pull requests from number i on whose
\* commit fetch succeeds, in listing order
RECURSIVE FetchedCommits(_, _, _)
FetchedCommits(prw, timeLimit, i) ==
    IF i > Len(AllPRs(prw)) THEN <<>>
    ELSE (IF i \in WalkedPRs(prw, timeLimit) \ prw.commitFail
          THEN prw.prCommits[i][1] ELSE <<>>)
         \o FetchedCommits(prw, timeLimit, i + 1)

InScan == call = "loadCommitsFromAllRepoPRs"

\* C5: when every fetch succeeds, the PR-commit pool holds the commits of
\* every page of every qualifying pull request the walk comes to.
C5_AllCommitPagesInPool ==
    (InScan /\ args.prw.listFail = {} /\ args.prw.commitFail = {}) =>
        \A i \in WalkedPRs(args.prw, args.timeLimit) :
            \A p \in DOMAIN args.prw.prCommits[i] :
                Range(args.prw.prCommits[i][p]) \subseteq Range(ret.items)

\* C6: once the walk meets a pull request created and updated before the
\* time limit, no commit fetch is issued for it or for any pull request
\* listed after it, and no list page after its page is requested.
C6_EarlyExitStopsWalk ==
    (InScan /\ OldPREncountered(args.prw, args.timeLimit)) =>
        LET old == Min(OldPRs(args.prw, args.timeLimit))
        IN  \A k \in DOMAIN fetches :
                /\ fetches[k].op = "listCommitsForPullRequest" => fetches[k].pr < old
                /\ fetches[k].op = "listPullRequestsSortedByUpdateDesc" =>
                       fetches[k].page <= PageOfPR(args.prw, old)

\* an old pull request in the middle of the first page, younger ones after it
\* on the same page and on a second page, the one before it fetched
C6_Witness ==
    /\ InScan
    /\ Len(args.prw.prPages) = 2
    /\ OldPRs(args.prw, args.timeLimit) = {2}
    /\ args.prw.commitFail = {}
    /\ fetches = <<ListPRs(1), ListPRCommits(1, 1)>>

\* a commit fetch of the walk failed
CommitFetchFailed ==
    \E k \in DOMAIN fetches :
        fetches[k].op = "listCommitsForPullRequest" /\ fetches[k].pr \in args.prw.commitFail

\* C7: when the commit fetch of a pull request fails the walk goes on: a
\* commit fetch is issued for every pull request the walk comes to, the
\* returned pool is the commits of the fetches that succeeded, in listing
\* order, and the returned error is not nil.
C7_ScanContinuesAfterFailure ==
    (InScan /\ CommitFetchFailed) =>
        /\ \A i \in WalkedPRs(args.prw, args.timeLimit) :
               \E k \in DOMAIN fetches : fetches[k] = ListPRCommits(i, 1)
        /\ ret.items = FetchedCommits(args.prw, args.timeLimit, 1)
        /\ ret.err # Nil

\* the first commit fetch fails, the two after it succeed and are returned
C7_Witness ==
    /\ InScan
    /\ Len(AllPRs(args.prw)) = 3
    /\ args.prw.commitFail = {1}
    /\ args.prw.listFail = {}
    /\ ret.items = <<Commit(2, 1), Commit(3, 1)>>
    /\ ret.err = Err("listCommitsForPullRequest", 1)

----------------------------------------------------------------------------
(* Properties of the direct commits of one repository. *)

InMaster == call = "masterCommitsForSingleRepo"

\* the branch commits on the pages in front of the first one that fails
BranchFetched(rw) ==
    Concat(SubSeq(rw.commitPages, 1,
                  IF rw.commitFail = {} THEN Len(rw.commitPages) ELSE Min(rw.commitFail) - 1))

\* the SHAs of the PR-commit pool the scan of the repository gathers
PoolSHAs(rw, days) ==
    {c.SHA : c \in Range(FetchedCommits(rw.prw, TimeLimitOf(days), 1))}

\* the branch commits fetched that have at most one parent and a SHA that
\* is not in the pool, in order
DirectCommits(rw, days) ==
    LET Direct(c) == c.Parents <= 1 /\ c.SHA \notin PoolSHAs(rw, days)
    IN  SelectSeq(BranchFetched(rw), Direct)

\* the commit fetch of a pull request the walk comes to fails
CommitFetchOfRepoFailed(rw, days) ==
    WalkedPRs(rw.prw, TimeLimitOf(days)) \cap rw.prw.commitFail # {}

\* a fetch of the pull-request scan failed: a list page the walk asks for,
\* or the commits of a pull request the walk comes to
ScanFailed(rw, days) ==
    \/ /\ rw.prw.listFail # {}
       /\ \A j \in OldPRs(rw.prw, TimeLimitOf(days)) :
              PageOfPR(rw.prw, j) >= Min(rw.prw.listFail)
    \/ CommitFetchOfRepoFailed(rw, days)

\* C3: when masterCommitsForSingleRepo gets to classify, the direct commits
\* are exactly the fetched branch commits with at most one parent whose SHA
\* is not in the PR-commit pool, in order; none has two parents; the total
\* is the number of branch commits fetched, so it bounds the direct ones.
C3_DirectCommitRule ==
    (InMaster /\ ret.err = Nil) =>
        /\ ret.master = DirectCommits(args.rw, args.days)
        /\ \A k \in DOMAIN ret.master : ret.master[k].Parents <= 1
        /\ ret.total = Len(BranchFetched(args.rw))
        /\ Len(ret.master) <= ret.total

\* branch commits [A (1 parent), B (2 parents), C (1 parent, in the pool)]:
\* direct = [A], total = 3
C3_Witness ==
    /\ InMaster
    /\ BranchFetched(args.rw) = <<Commit(1 + MaxPRs, 1), Commit(1, 2), Commit(1, 1)>>
    /\ 1 \in PoolSHAs(args.rw, args.days)
    /\ ret.master = <<Commit(1 + MaxPRs, 1)>>
    /\ ret.total = 3
    /\ ret.err = Nil

\* C8 as claimed: after the failure of one pull request's commit fetch the
\* direct commits and the total are still computed, against the partial
\* pool, and returned beside the error.
C8_DirectCommitsDespiteFailure ==
    (InMaster /\ CommitFetchOfRepoFailed(args.rw, args.days)) =>
        /\ ret.master = DirectCommits(args.rw, args.days)
        /\ ret.total = Len(BranchFetched(args.rw))
        /\ ret.err # Nil

\* C9: when a page of the branch commits fails to fetch, the error that
\* masterCommitsForSingleRepo returns is not nil, and neither is the error
\* of CommitsToMaster for that repository.
C9_BranchFailurePropagated ==
    /\ (InMaster /\ args.rw.commitFail # {}) => ret.err # Nil
    /\ (call = "CommitsToMaster" /\ args.repo # <<>>
          /\ args.org.repos[args.repo].commitFail # {}) => ret.err # Nil

InSingleRepoQuery == call = "CommitsToMaster" /\ args.repo # <<>>

\* C8, amended: the failure of one pull request's commit fetch does not stop
\* the pull-request scan, which still asks for the commits of every pull
\* request it comes to, but it stops the direct-commit computation:
\* masterCommitsForSingleRepo returns no direct commits, total 0 and the
\* error, and CommitsToMaster for that repository a nil mapping, total 0
\* and the error.
C8_FailureEndsDirectCommits ==
    /\ (InMaster /\ CommitFetchOfRepoFailed(args.rw, args.days)) =>
           /\ \A i \in WalkedPRs(args.rw.prw, TimeLimitOf(args.days)) :
                  \E k \in DOMAIN fetches : fetches[k] = ListPRCommits(i, 1)
           /\ ret.master = NilSlice
           /\ ret.total = 0
           /\ ret.err # Nil
    /\ (InSingleRepoQuery /\ CommitFetchOfRepoFailed(args.org.repos[args.repo], args.days)) =>
           /\ ret.map = NilMap
           /\ ret.total = 0
           /\ ret.err # Nil

\* the first of two pull requests fails, the second is still fetched, and
\* the branch has a direct commit that is not returned
C8_Witness ==
    /\ InMaster
    /\ args.rw.prw.commitFail = {1}
    /\ args.rw.prw.listFail = {}
    /\ Len(AllPRs(args.rw.prw)) = 2
    /\ \E k \in DOMAIN fetches : fetches[k] = ListPRCommits(2, 1)
    /\ DirectCommits(args.rw, args.days) # <<>>
    /\ ret.master = NilSlice
    /\ ret.total = 0

----------------------------------------------------------------------------
(* Properties of the organization-wide commit scan. *)

InOrgScan == call = "CommitsToMaster" /\ args.repo = <<>>

\* the names of the listed repositories pushed to within the window
ActiveNames(org, days) ==
    {repo.Name : repo \in {r \in Range(Concat(org.repoPages)) :
                               Now - r.PushedAt <= days * HoursPerDay}}

\* the active repositories whose scan reports a failure
FailingRepos(org, days) ==
    {name \in ActiveNames(org, days) : ScanFailed(org.repos[name], days)}

\* the repositories a fetch was issued about
ScannedRepos == {fetches[k].repo : k \in DOMAIN fetches} \ {<<>>}

Max(S) == CHOOSE x \in S : \A y \in S : x >= y

\* the error a failed pull-request scan reports: of the list page that
\* fails, else of the last pull request whose commit fetch fails
ScanErrorOf(rw, days) ==
    IF CommitFetchOfRepoFailed(rw, days) /\
       (rw.prw.listFail = {} \/
        \E j \in OldPRs(rw.prw, TimeLimitOf(days)) :
            PageOfPR(rw.prw, j) < Min(rw.prw.listFail))
    THEN Err("listCommitsForPullRequest",
             Max(WalkedPRs(rw.prw, TimeLimitOf(days)) \cap rw.prw.commitFail))
    ELSE Err("listPullRequestsSortedByUpdateDesc", Min(rw.prw.listFail))

\* C10: in an organization-wide scan, a failure of the repository listing
\* or the first failure reported for a repository ends the scan with a nil
\* mapping, total 0 and that error: after a listing failure no repository
\* is scanned; otherwise the failing repository is the last one scanned,
\* the only failing one scanned, and no repository ordered after it is.
C10_FirstFailureAbortsOrgScan ==
    (InOrgScan /\ (args.org.repoFail # {} \/ FailingRepos(args.org, args.days) # {})) =>
        /\ ret.map = NilMap
        /\ ret.total = 0
        /\ IF args.org.repoFail # {}
           THEN /\ ret.err = Err("listReposForOrg", Min(args.org.repoFail))
                /\ ScannedRepos = {}
           ELSE \E f \in FailingRepos(args.org, args.days) :
                   /\ ret.err = ScanErrorOf(args.org.repos[f], args.days)
                   /\ fetches[Len(fetches)].repo = f
                   /\ ScannedRepos \cap FailingRepos(args.org, args.days) = {f}
                   /\ \A x \in ActiveNames(args.org, args.days) :
                          StrLess(ToLower(f), ToLower(x)) => x \notin ScannedRepos

\* "a" has a direct commit and "B", scanned after it, fails: the mapping is
\* nil although "a" was scanned
C10_Witness ==
    /\ InOrgScan
    /\ args.org.repoFail = {}
    /\ ActiveNames(args.org, args.days) = {<<97>>, <<66>>}
    /\ FailingRepos(args.org, args.days) = {<<66>>}
    /\ DirectCommits(args.org.repos[<<97>>], args.days) # <<>>
    /\ ScannedRepos = {<<97>>, <<66>>}
    /\ ret.map = NilMap
    /\ ret.total = 0

----------------------------------------------------------------------------
(* Properties of the open pull requests of the organization. *)

InOpenPRs == call = "OpenPullRequests"

\* the open pull requests the provider holds for a repository
OpenPRsOf(org, name) == Range(Concat(org.openPRs[name].pages))

\* no fetch of the call fails
NoOpenPRFailure(org, days) ==
    /\ org.repoFail = {}
    /\ \A name \in ActiveNames(org, days) : org.openPRs[name].fail = {}

\* C4: when no fetch fails, the output holds every open pull request of
\* every active repository whose age is at least the minimum age and none
\* that is younger, in whatever order a repository lists them.
C4_EveryOldEnoughPRIncluded ==
    (InOpenPRs /\ NoOpenPRFailure(args.org, args.daysSinceLastProjectActivity)) =>
        \A name \in ActiveNames(args.org, args.daysSinceLastProjectActivity) :
            \A pr \in OpenPRsOf(args.org, name) :
                (Now - pr.CreatedAt >= args.daysPROpen * HoursPerDay)
                    <=> pr \in Range(ret.items)

----------------------------------------------------------------------------
(* Properties of the active repositories. *)

InLoadActive == call = "loadActiveReposForOrganization"

\* the repositories on the listing pages in front of the first that fails
ReposFetched(org) ==
    Concat(SubSeq(org.repoPages, 1,
                  IF org.repoFail = {} THEN Len(org.repoPages) ELSE Min(org.repoFail) - 1))

\* the fetched repositories whose last push is at most days days back
PushedWithin(org, days) ==
    {r \in Range(ReposFetched(org)) : Now - r.PushedAt <= days * HoursPerDay}

\* C11: loadActiveReposForOrganization returns exactly the fetched
\* repositories whose time since the last push is at most days days, one
\* pushed exactly days days ago included, in ascending order of the
\* lowercased names; when none qualifies and the fetch succeeded the result
\* is empty and the error nil.
C11_ActiveReposSortedByName ==
    InLoadActive =>
        /\ Range(ret.items) = PushedWithin(args.org, args.days)
        /\ Len(ret.items) = Cardinality(PushedWithin(args.org, args.days))
        /\ \A r \in Range(ReposFetched(args.org)) :
               Now - r.PushedAt = args.days * HoursPerDay => r \in Range(ret.items)
        /\ \A i, j \in DOMAIN ret.items :
               i < j => ~StrLess(ToLower(ret.items[j].Name), ToLower(ret.items[i].Name))
        /\ (args.org.repoFail = {} /\ PushedWithin(args.org, args.days) = {}) =>
               (ret.items = <<>> /\ ret.err = Nil)

\* "B" pushed exactly days days ago is listed in front of "a": both are
\* returned, "a" first
C11_Witness ==
    /\ InLoadActive
    /\ args.org.repoFail = {}
    /\ ReposFetched(args.org) =
           <<[Name |-> <<66>>, PushedAt |-> Now - args.days * HoursPerDay],
             [Name |-> <<97>>, PushedAt |-> Now - args.days * HoursPerDay + 1]>>
    /\ ret.items = <<ReposFetched(args.org)[2], ReposFetched(args.org)[1]>>
    /\ ret.err = Nil

----------------------------------------------------------------------------
(* Properties of the issue classification. *)

\* the six classification operations
ClassificationCalls ==
    {"Sprint", "InProgress", "ReadyForQA", "QAPass", "ReadyForReview", "Backlog"}

\* an issue without labels: the list is absent or empty
Unlabeled(issue) == issue.Labels.isNil \/ issue.Labels.list = <<>>

\* C12: an issue with no labels, its label list absent or present but
\* empty, is in the result of none of the six classification operations.
C12_UnlabeledExcluded ==
    call \in ClassificationCalls =>
        \A k \in DOMAIN ret.items : ~Unlabeled(ret.items[k])

InPredicates == call = "predicates"

\* how many of the six canonical predicates hold of the issue
CanonicalHolding ==
    Cardinality({name \in {"isSprintItem", "isInProgress", "isReadyForQA", "isQAPass",
                           "isDone", "isBacklogItem"} : ret[name]})

\* one of the five specific predicates holds of the issue
SpecificHolds ==
    ret.isSprintItem \/ ret.isInProgress \/ ret.isReadyForQA \/ ret.isQAPass \/ ret.isDone

\* C13 as claimed: of a labeled issue exactly one of Sprint, InProgress,
\* ReadyForQA, QAPass, Done and Backlog holds.
C13_ExactlyOneOfSix ==
    (InPredicates /\ ~Unlabeled(args.issue)) => CanonicalHolding = 1

\* C13, amended: of a labeled issue at least one of the six canonical
\* predicates holds, and Backlog never holds together with one of the five
\* others; the five others may hold together.
C13_BacklogApartFromSpecific ==
    (InPredicates /\ ~Unlabeled(args.issue)) =>
        /\ CanonicalHolding >= 1
        /\ ~(ret.isBacklogItem /\ SpecificHolds)

\* labels ["Sprint", "Done"]: Sprint and Done hold, Backlog does not
C13_Witness ==
    /\ InPredicates
    /\ args.issue.Labels = LabelList(<<Label_Sprint, Label_Done>>)
    /\ ret.isSprintItem /\ ret.isDone
    /\ ~ret.isBacklogItem
    /\ CanonicalHolding = 2

\* the lowercased names, each followed by a space
RECURSIVE JoinedLower(_)
JoinedLower(names) ==
    IF names = <<>> THEN <<>>
    ELSE [k \in DOMAIN Head(names) |->
             IF Head(names)[k] >= 65 /\ Head(names)[k] <= 90
             THEN Head(names)[k] + 32 ELSE Head(names)[k]]
         \o <<32>> \o JoinedLower(Tail(names))

\* word occurs in text
Occurs(word, text) ==
    \E from \in 1..Len(text) : \E to \in from..Len(text) : SubSeq(text, from, to) = word

\* one of the five specific rules matches the text
SpecificRuleMatches(text) ==
    \/ Occurs(Lit_sprint, text)
    \/ Occurs(Lit_in, text) /\ Occurs(Lit_progress, text)
    \/ Occurs(Lit_ready, text) /\ Occurs(Lit_for, text) /\ Occurs(Lit_qa, text)
    \/ Occurs(Lit_qa, text) /\ Occurs(Lit_pass, text)
    \/ Occurs(Lit_done, text)

\* C14: the Backlog predicate holds of an issue exactly when none of the
\* rules Sprint, InProgress, ReadyForQA, QAPass and Done matches the
\* lowercased, space-joined text of its labels; an issue whose only label is
\* "Done" is not Backlog; an issue that ReadyForReview or ProductBacklog
\* holds of and none of the five is Backlog.
C14_BacklogIsTheComplement ==
    InPredicates =>
        /\ ret.isBacklogItem <=> ~SpecificRuleMatches(JoinedLower(args.issue.Labels.list))
        /\ args.issue.Labels = LabelList(<<Label_Done>>) => ~ret.isBacklogItem
        /\ ((ret.isReadyForReview \/ ret.isProductBacklogItem) /\ ~SpecificHolds)
               => ret.isBacklogItem

\* the only label is "Done": no other rule holds and the issue is not Backlog
C14_Witness ==
    /\ InPredicates
    /\ args.issue.Labels = LabelList(<<Label_Done>>)
    /\ ~ret.isSprintItem /\ ~ret.isInProgress /\ ~ret.isReadyForQA /\ ~ret.isQAPass
    /\ ret.isDone
    /\ ~ret.isBacklogItem

\* the operations built on makeIssueList
InMakeIssueList ==
    \/ call \in ClassificationCalls
    \/ call = "AssignedTo" /\ args.repo # Star

\* C20: when a page of the issue fetch fails, an operation built on
\* makeIssueList returns a nil list and the error of that page; AssignedTo
\* with the repository "*" returns the issues of the pages in front of the
\* failing one beside the error, and whatever it fetched it returns as it
\* is, issues without labels included.
C20_PartialResultsDiscarded ==
    /\ (InMakeIssueList /\ args.fail # {}) =>
           /\ ret.items = NilSlice
           /\ ret.err = Err("listIssuesForRepo", Min(args.fail))
    /\ (call = "AssignedTo" /\ args.repo = Star) =>
           IF args.fail = {}
           THEN ret.items = Concat(args.pages) /\ ret.err = Nil
           ELSE /\ ret.items = Concat(SubSeq(args.pages, 1, Min(args.fail) - 1))
                /\ ret.err = Err("searchIssuesAssignedTo", Min(args.fail))

\* Sprint: the first page holds a sprint issue, the second page fails, and
\* nothing is returned
C20_Witness ==
    /\ call = "Sprint"
    /\ args.fail = {2}
    /\ args.pages[1] = <<Issue(LabelList(<<Label_Sprint, Label_Urgent>>))>>
    /\ ret.items = NilSlice
    /\ ret.err = Err("listIssuesForRepo", 2)

----------------------------------------------------------------------------
(* Properties of the result mapping of CommitsToMaster. *)

\* the active repositories with at least one direct commit
ReposWithDirectCommits(org, days) ==
    {name \in ActiveNames(org, days) : DirectCommits(org.repos[name], days) # <<>>}

\* C15: in an organization-wide scan that succeeds, the keys of the result
\* mapping are exactly the active repositories with at least one direct
\* commit, each with its direct commits: no entry is empty.
C15_NoEmptyEntries ==
    (InOrgScan /\ ret.err = Nil) =>
        /\ ~ret.map.isNil
        /\ DOMAIN ret.map.at = ReposWithDirectCommits(args.org, args.days)
        /\ \A name \in DOMAIN ret.map.at :
               /\ ret.map.at[name] # <<>>
               /\ ret.map.at[name] = DirectCommits(args.org.repos[name], args.days)

\* "a" has a direct commit, the only branch commit of "b" is in a pull
\* request: "a" is the only key
C15_Witness ==
    /\ InOrgScan
    /\ ret.err = Nil
    /\ ActiveNames(args.org, args.days) = {<<97>>, <<98>>}
    /\ BranchFetched(args.org.repos[<<98>>]) # <<>>
    /\ DirectCommits(args.org.repos[<<98>>], args.days) = <<>>
    /\ DOMAIN ret.map.at = {<<97>>}

\* the branch commits fetched for the repositories of names, added up
RECURSIVE BranchCommitCount(_, _)
BranchCommitCount(org, names) ==
    IF names = {} THEN 0
    ELSE LET name == CHOOSE x \in names : TRUE
         IN  Len(BranchFetched(org.repos[name])) + BranchCommitCount(org, names \ {name})

\* C19: in an organization-wide scan that succeeds the total is the sum of
\* the branch-commit counts of the repositories that are keys of the
\* mapping, so an active repository without direct commits adds nothing; in
\* a single-repository query that succeeds the repository is the one key of
\* the mapping, with its direct commits even when there is none, and the
\* total is its branch-commit count.
C19_TotalCountsKeysOnly ==
    /\ (InOrgScan /\ ret.err = Nil) =>
           ret.total = BranchCommitCount(args.org, DOMAIN ret.map.at)
    /\ (InSingleRepoQuery /\ ret.err = Nil) =>
           /\ DOMAIN ret.map.at = {args.repo}
           /\ ret.map.at[args.repo] = DirectCommits(args.org.repos[args.repo], args.days)
           /\ ret.total = Len(BranchFetched(args.org.repos[args.repo]))

\* "a" has a merge commit and a direct commit, the only branch commit of
\* "b" is in a pull request: the total is 2, not 3
C19_Witness ==
    /\ InOrgScan
    /\ ret.err = Nil
    /\ ActiveNames(args.org, args.days) = {<<97>>, <<98>>}
    /\ Len(BranchFetched(args.org.repos[<<97>>])) = 2
    /\ Len(BranchFetched(args.org.repos[<<98>>])) = 1
    /\ DOMAIN ret.map.at = {<<97>>}
    /\ ret.total = 2

----------------------------------------------------------------------------
(* Properties of the order and the errors of OpenPullRequests. *)

\* the first fetch about a repository
FirstFetchOf(name) == Min({k \in DOMAIN fetches : fetches[k].repo = name})

\* pull request x is in front of y before the sort: its repository is
\* scanned first, or they are of one repository and x is listed first
GatheredBefore(x, y) ==
    \/ FirstFetchOf(x.Repo) < FirstFetchOf(y.Repo)
    \/ x.Repo = y.Repo /\ x.Number < y.Number

\* C16: the list OpenPullRequests returns is in ascending order of the
\* creation times, and two pull requests created at the same time are in
\* the order they had before the sort.
C16_SortedAndStable ==
    InOpenPRs =>
        \A i, j \in DOMAIN ret.items :
            i < j => /\ ret.items[i].CreatedAt <= ret.items[j].CreatedAt
                     /\ ret.items[i].CreatedAt = ret.items[j].CreatedAt =>
                            GatheredBefore(ret.items[i], ret.items[j])

\* the names of the repositories fetched and pushed to within the window
ActiveFetched(org, days) == {r.Name : r \in PushedWithin(org, days)}

\* a fetch the call issued failed
IssuedFetchFailed ==
    \E k \in DOMAIN fetches :
        \/ fetches[k].op = "listReposForOrg" /\ fetches[k].page \in args.org.repoFail
        \/ /\ fetches[k].op = "listOpenPullRequests"
           /\ fetches[k].page \in args.org.openPRs[fetches[k].repo].fail

\* the repositories scanned whose pull requests failed to load
FailedScans ==
    {name \in ScannedRepos :
        \E k \in DOMAIN fetches :
            fetches[k].repo = name /\ fetches[k].page \in args.org.openPRs[name].fail}

\* the pull requests of a repository listed in front of the first one
\* younger than the minimum age
GatheredFrom(org, name, daysPROpen) ==
    LET listed == Concat(org.openPRs[name].pages)
        young == {k \in DOMAIN listed : Now - listed[k].CreatedAt < daysPROpen * HoursPerDay}
    IN  {listed[k] : k \in {x \in DOMAIN listed : \A y \in young : x < y}}

\* C18: when a fetch issued by OpenPullRequests fails, of the repository
\* listing or of the pull requests of a repository, the error returned is
\* not nil.  The active repositories listed before a failing listing page
\* are scanned; the first repository whose pull requests fail to load is
\* the last one scanned, and what was gathered from the repositories before
\* it is returned in ascending order of the creation times.
C18_FailuresNeverMasked ==
    InOpenPRs =>
        LET active == ActiveFetched(args.org, args.daysSinceLastProjectActivity)
        IN  /\ IssuedFetchFailed => ret.err # Nil
            /\ ScannedRepos \subseteq active
            /\ Cardinality(FailedScans) <= 1
            /\ FailedScans = {} => ScannedRepos = active
            /\ \A f \in FailedScans :
                   /\ fetches[Len(fetches)].repo = f
                   /\ \A x \in active :
                          /\ StrLess(ToLower(x), ToLower(f)) => x \in ScannedRepos
                          /\ StrLess(ToLower(f), ToLower(x)) => x \notin ScannedRepos
            /\ Range(ret.items) =
                   UNION {GatheredFrom(args.org, name, args.daysPROpen) :
                             name \in ScannedRepos \ FailedScans}
            /\ \A i, j \in DOMAIN ret.items :
                   i < j => ret.items[i].CreatedAt <= ret.items[j].CreatedAt

\* the second listing page fails; "a", on the first, is scanned and its pull
\* requests are returned beside the error of the listing
C18_Witness ==
    /\ InOpenPRs
    /\ args.org.repoFail = {2}
    /\ ScannedRepos = {<<97>>}
    /\ FailedScans = {}
    /\ Len(ret.items) = 2
    /\ ret.err = Err("listReposForOrg", 2)

----------------------------------------------------------------------------
(* The early exit of the pull-request commit scan. *)

\* the provider lists the pull requests in non-increasing order of their
\* update times, and none is updated before it is created
ListedByUpdateDesc(prw) ==
    /\ \A i, j \in DOMAIN AllPRs(prw) :
           i < j => AllPRs(prw)[i].UpdatedAt >= AllPRs(prw)[j].UpdatedAt
    /\ \A i \in DOMAIN AllPRs(prw) : AllPRs(prw)[i].CreatedAt <= AllPRs(prw)[i].UpdatedAt

\* the pull requests created or updated after the time limit
QualifyingPRs(prw, timeLimit) ==
    {i \in DOMAIN AllPRs(prw) :
        AllPRs(prw)[i].CreatedAt > timeLimit \/ AllPRs(prw)[i].UpdatedAt > timeLimit}

\* C17: when the pull requests are listed in non-increasing order of their
\* update times, none is updated before it is created and no list page
\* fails, the scan asks for the commits of every pull request created or
\* updated after the time limit.
C17_EarlyExitSkipsNoQualifyingPR ==
    (InScan /\ args.prw.listFail = {} /\ ListedByUpdateDesc(args.prw)) =>
        \A i \in QualifyingPRs(args.prw, args.timeLimit) :
            \E k \in DOMAIN fetches : fetches[k] = ListPRCommits(i, 1)

\* a pull request created before the limit and updated after it in front
\* of two old ones, the last on a second page: its commits are asked for
\* and the walk ends at the first old one
C17_Witness ==
    /\ InScan
    /\ args.prw.listFail = {}
    /\ ListedByUpdateDesc(args.prw)
    /\ Len(args.prw.prPages) = 2
    /\ QualifyingPRs(args.prw, args.timeLimit) = {1}
    /\ AllPRs(args.prw)[1].CreatedAt < args.timeLimit
    /\ OldPRs(args.prw, args.timeLimit) = {2, 3}
    /\ fetches = <<ListPRs(1), ListPRCommits(1, 1)>>

====
